---- MODULE Spec2Model ----
(***************************************************************************)
(* Healthcare supply-chain pipeline: the data quality validation engine    *)
(* (src/src/etl/validation/data_quality.py) and the two Airflow DAGs that  *)
(* gate on its verdict (src/dags), the transformer that cleans and         *)
(* enriches a dataset (src/src/etl/transformers.py) and the loader that    *)
(* inserts it in batches (src/src/etl/loaders.py).                         *)
(*                                                                         *)
(* A pandas DataFrame is a record [columns, rows]: the set of column names *)
(* and the sequence of rows, each row a function from column name to cell. *)
(* A cell is [k, s, n]: k is the kind of the Python value ("null" for      *)
(* None/NaN/NaT, "num" for a number, "str" for text, "date" for a          *)
(* datetime), s the text of a string and n the number or the day of a      *)
(* datetime.  Timestamps of results and summaries are left out: no rule    *)
(* reads them.                                                             *)
(***************************************************************************)
EXTENDS Integers, Sequences, FiniteSets, TLC

VARIABLES
    checker,     \* DataQualityChecker: checks_passed, checks_failed, results
    df,          \* the dataset handed to the last call, as it was handed over
    df_after,    \* the same dataset as the caller finds it after the call
    ret,         \* what the last validate_all call did: a summary or a raise
    ge_results,  \* GreatExpectationsValidator.results
    ge_ret,      \* what the last create_expectation_suite call did
    entry,       \* history: what the checker held when the last call began
    held,        \* history: the summary a caller got from an earlier call
    dag_id,      \* the DAG of the run in progress
    ti,          \* task instance states of the run
    tries,       \* attempts made of each task
    outcome,     \* how the last attempt of each task ended
    xcom,        \* the values the tasks have pushed
    executed,    \* history: the tasks whose callable has run
    step,        \* how far the transformation in progress has come
    df_raw,      \* the dataset handed to clean_data
    nulls,       \* the dtype pandas gave the columns of df_raw that hold only nulls
    df_clean,    \* the frame clean_data returned (enrich_data writes into it)
    df_enriched, \* the frame enrich_data returned
    transformed, \* how validate_transformed_data_task ended on df_enriched
    records,     \* load_to_database: the prepared records
    load_i,      \* load_to_database: i, the start of the next batch
    total_loaded,\* load_to_database: total_loaded
    load_pc,     \* load_to_database: where the call is
    load_ret,    \* what the last load_to_database call did
    inserted     \* the table: the batches inserted, in order

validator_vars == <<checker, df, df_after, ret, ge_results, ge_ret, entry, held>>

dag_vars == <<dag_id, ti, tries, outcome, xcom, executed>>

transform_vars == <<step, df_raw, nulls, df_clean, df_enriched, transformed>>

load_vars == <<records, load_i, total_loaded, load_pc, load_ret, inserted>>

etl_vars == <<transform_vars, load_vars>>

vars ==
    <<checker, df, df_after, ret, ge_results, ge_ret, entry, held,
      dag_id, ti, tries, outcome, xcom, executed,
      step, df_raw, nulls, df_clean, df_enriched, transformed,
      records, load_i, total_loaded, load_pc, load_ret, inserted>>

----------------------------------------------------------------------------
(* Cells *)

Null == [k |-> "null", s |-> "", n |-> 0]

Num(x) == [k |-> "num", s |-> "", n |-> x]

Str(t) == [k |-> "str", s |-> t, n |-> 0]

Date(d) == [k |-> "date", s |-> "", n |-> d]

\* Series.isnull(): None, NaN and NaT are null, nothing else is.
isnull(c) == c.k = "null"

\* The rule columns, in no particular order.
Columns ==
    {"product_id", "product_name", "batch_number", "quantity", "unit_price",
     "expiry_date", "manufacture_date", "warehouse_location"}

\* df[col]: the column as a sequence of cells.
Col(d, col) == [i \in 1..Len(d.rows) |-> d.rows[i][col]]

\* (mask).sum(): how many positions of a sequence satisfy P.
CountIf(seq, P(_)) == Cardinality({i \in DOMAIN seq : P(seq[i])})

\* duplicated(keep=False).sum(): every position of a repeated value.
duplicated_sum_keep_false(seq) ==
    Cardinality({i \in DOMAIN seq : \E j \in DOMAIN seq : j # i /\ seq[j] = seq[i]})

\* Series.duplicated().sum(): positions equal to an earlier position
\* (nulls compare equal to each other, as pandas' hashing has it).
duplicated_sum(seq) ==
    Cardinality({i \in DOMAIN seq : \E j \in 1..(i - 1) : seq[j] = seq[i]})

\* Python's round-half-even of num/den, for num >= 0 and den > 0.
RoundDiv(num, den) ==
    LET q == num \div den
        r == num % den
    IN  IF 2 * r > den THEN q + 1
        ELSE IF 2 * r < den THEN q
        ELSE IF q % 2 = 0 THEN q ELSE q + 1

\* The percentage cut after two decimals instead of rounded.
Pct_truncated(x, y) == (x * 10000) \div y

\* x / y * 100 shown with two decimals, in hundredths of a percent.
Pct(x, y) == RoundDiv(x * 10000, y)

\* An ordered comparison of a column with a number (df[c] < 0, df[c] > m)
\* raises TypeError when the column holds text or a datetime; nulls compare
\* False.
Comparable(seq) == \A i \in DOMAIN seq : seq[i].k \in {"null", "num"}

\* Texts pandas parses as dates, with the day they denote.
DateText == [t \in {"2024-01-01", "2024-06-01", "2025-01-01"} |->
                CASE t = "2024-01-01" -> 1
                  [] t = "2024-06-01" -> 2
                  [] t = "2025-01-01" -> 3]

\* pd.to_datetime on one value: can it be parsed?
Parseable(c) == c.k \in {"null", "date", "num"} \/ (c.k = "str" /\ c.s \in DOMAIN DateText)

\* pd.to_datetime on one parseable value: NaT stays null.
to_datetime(c) ==
    IF c.k = "str" THEN Date(DateText[c.s])
    ELSE IF c.k = "num" THEN Date(c.n)
    ELSE c

----------------------------------------------------------------------------
(* DataQualityChecker *)

\* __init__
NewChecker == [checks_passed |-> 0, checks_failed |-> 0, results |-> <<>>]

Msg(rule, col, n, pct) == [rule |-> rule, col |-> col, n |-> n, pct |-> pct]

\* _log_check with the WARN branch counting a failure.
log_check_warn_failed(c, status, message) ==
    [checks_passed |-> IF status = "PASS" THEN c.checks_passed + 1 ELSE c.checks_passed,
     checks_failed |-> IF status = "PASS" THEN c.checks_failed ELSE c.checks_failed + 1,
     results |-> Append(c.results, [status |-> status, message |-> message])]

\* _log_check with a WARN branch that appends the result and counts nothing.
log_check_warn_uncounted(c, status, message) ==
    [checks_passed |-> IF status = "PASS" THEN c.checks_passed + 1 ELSE c.checks_passed,
     checks_failed |-> IF status = "FAIL" THEN c.checks_failed + 1 ELSE c.checks_failed,
     results |-> Append(c.results, [status |-> status, message |-> message])]

\* _log_check: append the result, count FAIL as failed and PASS and WARN as
\* passed.
log_check(c, status, message) ==
    [checks_passed |-> IF status = "FAIL" THEN c.checks_passed ELSE c.checks_passed + 1,
     checks_failed |-> IF status = "FAIL" THEN c.checks_failed + 1 ELSE c.checks_failed,
     results |-> Append(c.results, [status |-> status, message |-> message])]

\* A rule's outcome: the checker after it, and the exception it raised.
Ok(c) == [c |-> c, exc |-> "none"]

Raised(c, e) == [c |-> c, exc |-> e]

\* The completeness rule reporting the share of the values that are present.
completeness_of_notnull_pct(r, d, col) ==
    IF r.exc # "none" \/ col \notin d.columns THEN r
    ELSE IF CountIf(Col(d, col), isnull) = 0
    THEN Ok(log_check(r.c, "PASS", Msg("completeness", col, 0, 0)))
    ELSE Ok(log_check(r.c, "FAIL",
                Msg("completeness", col, CountIf(Col(d, col), isnull),
                    Pct(Len(d.rows) - CountIf(Col(d, col), isnull), Len(d.rows)))))

\* One completeness rule, run unless an earlier rule has raised.
completeness_of(r, d, col) ==
    IF r.exc # "none" \/ col \notin d.columns THEN r
    ELSE IF CountIf(Col(d, col), isnull) = 0
    THEN Ok(log_check(r.c, "PASS", Msg("completeness", col, 0, 0)))
    ELSE Ok(log_check(r.c, "FAIL",
                Msg("completeness", col, CountIf(Col(d, col), isnull),
                    Pct(CountIf(Col(d, col), isnull), Len(d.rows)))))

\* _check_completeness: the critical columns, in the order of the list.
check_completeness(r, d) ==
    completeness_of(completeness_of(completeness_of(completeness_of(
        r, d, "product_id"), d, "product_name"), d, "quantity"), d, "batch_number")

\* The (product_id, batch_number) pairs of the rows.
ProductBatch(d) ==
    [i \in 1..Len(d.rows) |-> <<d.rows[i]["product_id"], d.rows[i]["batch_number"]>>]

\* One duplicate rule of _check_uniqueness on the key sequence keys.
uniqueness_of(r, applies, keys, col) ==
    IF r.exc # "none" \/ ~applies THEN r
    ELSE IF duplicated_sum(keys) = 0
    THEN Ok(log_check(r.c, "PASS", Msg("uniqueness", col, 0, 0)))
    ELSE Ok(log_check(r.c, "FAIL", Msg("uniqueness", col, duplicated_sum(keys), 0)))

\* _check_uniqueness with the composite key compared on batch_number alone.
check_uniqueness_batch_only(r, d) ==
    uniqueness_of(
        uniqueness_of(r, "batch_number" \in d.columns, Col(d, "batch_number"), "batch_number"),
        "product_id" \in d.columns /\ "batch_number" \in d.columns,
        Col(d, "batch_number"), "product_id+batch_number")

\* _check_uniqueness: batch_number, then product_id with batch_number.
check_uniqueness(r, d) ==
    uniqueness_of(
        uniqueness_of(r, "batch_number" \in d.columns, Col(d, "batch_number"), "batch_number"),
        "product_id" \in d.columns /\ "batch_number" \in d.columns,
        ProductBatch(d), "product_id+batch_number")

IsNegative(x) == x.k = "num" /\ x.n < 0

\* One non-negativity rule of _check_validity: (df[col] < 0).sum().
validity_of(r, d, col) ==
    IF r.exc # "none" \/ col \notin d.columns THEN r
    ELSE IF ~Comparable(Col(d, col)) THEN Raised(r.c, "TypeError")
    ELSE IF CountIf(Col(d, col), IsNegative) = 0
    THEN Ok(log_check(r.c, "PASS", Msg("validity", col, 0, 0)))
    ELSE Ok(log_check(r.c, "FAIL", Msg("validity", col, CountIf(Col(d, col), IsNegative), 0)))

\* The date format rule of _check_validity: the try/except turns a parse
\* error into a FAIL.
validity_of_dates(r, d) ==
    IF r.exc # "none" \/ "expiry_date" \notin d.columns THEN r
    ELSE IF \A i \in 1..Len(d.rows) : Parseable(d.rows[i]["expiry_date"])
    THEN Ok(log_check(r.c, "PASS", Msg("validity", "expiry_date", 0, 0)))
    ELSE Ok(log_check(r.c, "FAIL", Msg("validity", "expiry_date", 0, 0)))

\* _check_validity: quantity, unit_price, expiry_date.
check_validity(r, d) ==
    validity_of_dates(validity_of(validity_of(r, d, "quantity"), d, "unit_price"), d)

\* expiry <= manufacture on one row, after conversion: a NaT never compares.
ExpiryNotAfter(row) ==
    /\ to_datetime(row["expiry_date"]).k = "date"
    /\ to_datetime(row["manufacture_date"]).k = "date"
    /\ to_datetime(row["expiry_date"]).n <= to_datetime(row["manufacture_date"]).n

\* The date ordering rule of _check_consistency: pd.to_datetime is called
\* outside any try, so a value it cannot parse raises.
consistency_of_dates(r, d) ==
    IF r.exc # "none" \/ "expiry_date" \notin d.columns \/ "manufacture_date" \notin d.columns
    THEN r
    ELSE IF \E i \in 1..Len(d.rows) :
               ~Parseable(d.rows[i]["expiry_date"]) \/ ~Parseable(d.rows[i]["manufacture_date"])
    THEN Raised(r.c, "ValueError")
    ELSE IF CountIf(d.rows, ExpiryNotAfter) = 0
    THEN Ok(log_check(r.c, "PASS", Msg("consistency", "expiry_date", 0, 0)))
    ELSE Ok(log_check(r.c, "FAIL",
                Msg("consistency", "expiry_date", CountIf(d.rows, ExpiryNotAfter), 0)))

valid_warehouses == {"Warehouse A", "Warehouse B", "Warehouse C", "Unknown"}

NotStandard(x) == ~(x.k = "str" /\ x.s \in valid_warehouses)

\* The warehouse rule of _check_consistency.
consistency_of_warehouse(r, d) ==
    IF r.exc # "none" \/ "warehouse_location" \notin d.columns THEN r
    ELSE IF CountIf(Col(d, "warehouse_location"), NotStandard) = 0
    THEN Ok(log_check(r.c, "PASS", Msg("consistency", "warehouse_location", 0, 0)))
    ELSE Ok(log_check(r.c, "WARN",
                Msg("consistency", "warehouse_location",
                    CountIf(Col(d, "warehouse_location"), NotStandard), 0)))

\* _check_consistency: the date order, then the warehouse names.
check_consistency(r, d) == consistency_of_warehouse(consistency_of_dates(r, d), d)

QuantityBound == 1000000

PriceBound == 100000

\* (df[col] == 0) | (df[col] > bound), on the values of a column.
SuspiciousCount(seq, bound) ==
    Cardinality({i \in DOMAIN seq : seq[i].k = "num" /\ (seq[i].n = 0 \/ seq[i].n > bound)})

\* One range rule of _check_accuracy.
accuracy_of(r, d, col, bound) ==
    IF r.exc # "none" \/ col \notin d.columns THEN r
    ELSE IF ~Comparable(Col(d, col)) THEN Raised(r.c, "TypeError")
    ELSE IF SuspiciousCount(Col(d, col), bound) = 0
    THEN Ok(log_check(r.c, "PASS", Msg("accuracy", col, 0, 0)))
    ELSE Ok(log_check(r.c, "WARN", Msg("accuracy", col, SuspiciousCount(Col(d, col), bound), 0)))

\* _check_accuracy: quantity, then unit_price.
check_accuracy(r, d) ==
    accuracy_of(accuracy_of(r, d, "quantity", QuantityBound), d, "unit_price", PriceBound)

\* validate_all without its first three assignments.
ResetChecker_skipped(c) == c

\* The first three assignments of validate_all.
ResetChecker(c) == [checks_passed |-> 0, checks_failed |-> 0, results |-> <<>>]

\* validate_all with _check_validity called ahead of _check_uniqueness.
RunChecks_validity_first(c, d) ==
    check_accuracy(check_consistency(check_uniqueness(check_validity(
        check_completeness(Ok(c), d), d), d), d), d)

\* The five rule categories in order; an exception ends the run, the rules
\* after it are not reached.
RunChecks(c, d) ==
    check_accuracy(check_consistency(check_validity(check_uniqueness(
        check_completeness(Ok(c), d), d), d), d), d)

PassThreshold == 95

\* The status with a threshold of 90 in place of 95.
StatusOf_threshold90(passed, failed) ==
    IF passed * 100 >= 90 * (passed + failed) THEN "PASS" ELSE "FAIL"

\* 'PASS' if success_rate >= 95 else 'FAIL', on the unrounded rate.
StatusOf(passed, failed) ==
    IF passed * 100 >= PassThreshold * (passed + failed) THEN "PASS" ELSE "FAIL"

\* The summary dict; success_rate is round(rate, 2) in hundredths.
SummaryOf(c) ==
    [kind |-> "summary",
     exc |-> "none",
     total_checks |-> c.checks_passed + c.checks_failed,
     passed |-> c.checks_passed,
     failed |-> c.checks_failed,
     success_rate |-> Pct(c.checks_passed, c.checks_passed + c.checks_failed),
     status |-> StatusOf(c.checks_passed, c.checks_failed),
     details |-> c.results]

RaiseOf(e) ==
    [kind |-> "raise", exc |-> e, total_checks |-> 0, passed |-> 0, failed |-> 0,
     success_rate |-> 0, status |-> "", details |-> <<>>]

NoCall == [RaiseOf("none") EXCEPT !.kind = "none"]

\* The end of validate_all once the rules have run: an exception of a rule
\* goes on to the caller, the division raises when no check has run, else
\* the summary is returned.
Summarise(r) ==
    IF r.exc # "none" THEN [c |-> r.c, ret |-> RaiseOf(r.exc)]
    ELSE IF r.c.checks_passed + r.c.checks_failed = 0
    THEN [c |-> r.c, ret |-> RaiseOf("ZeroDivisionError")]
    ELSE [c |-> r.c, ret |-> SummaryOf(r.c)]

\* validate_all on a checker in state c: the checker it leaves and what the
\* caller gets.
validate_all(c, d) == Summarise(RunChecks(ResetChecker(c), d))

\* df_temp[col] = pd.to_datetime(df_temp[col]), on a column that parses.
ConvertColumn(t, col) ==
    [t EXCEPT !.rows = [i \in 1..Len(t.rows) |->
                           [t.rows[i] EXCEPT ![col] = to_datetime(t.rows[i][col])]]]

\* The two conversions of _check_consistency as far as they get: the first
\* column that does not parse raises before anything is assigned to it.
ConvertedDates(t) ==
    IF \E i \in 1..Len(t.rows) : ~Parseable(t.rows[i]["expiry_date"]) THEN t
    ELSE IF \E i \in 1..Len(t.rows) : ~Parseable(t.rows[i]["manufacture_date"])
    THEN ConvertColumn(t, "expiry_date")
    ELSE ConvertColumn(ConvertColumn(t, "expiry_date"), "manufacture_date")

\* The date rule with df_temp = df in place of df_temp = df.copy(): the
\* conversions land in the caller's frame.
consistency_frames_no_copy(d) == [df |-> ConvertedDates(d), df_temp |-> ConvertedDates(d)]

\* The two frames of the date rule of _check_consistency once it has run:
\* df_temp = df.copy() is a frame of its own, the conversions are assigned
\* to it and the frame passed in keeps its values.
consistency_frames(d) == [df |-> d, df_temp |-> ConvertedDates(d)]

\* The caller's frame after validate_all.  Every rule but the date rule of
\* _check_consistency only reads the frame; the date rule is reached when
\* both its columns are present and _check_validity, the one category before
\* it that can raise, has returned.
frame_after_validate_all(d) ==
    IF /\ "expiry_date" \in d.columns
       /\ "manufacture_date" \in d.columns
       /\ check_validity(Ok(NewChecker), d).exc = "none"
    THEN consistency_frames(d).df
    ELSE d

\* No summary is held.
NoHeld == [kind |-> "none", shared |-> FALSE, intact |-> TRUE]

\* What a caller holds when the next call begins: the summary of the call
\* that has just returned, whose details is the checker's results list
\* itself ('details': self.results), or else the summary held before.
HeldAtEntry(last, h) ==
    IF last.kind = "summary" THEN [kind |-> "summary", shared |-> TRUE, intact |-> TRUE]
    ELSE h

\* The held summary after a call that found the checker in state before and
\* left it in state after.  self.results = [] binds a new list, so the held
\* details is no longer the checker's list and the appends of the call do
\* not reach it; a list that the reset leaves with its entries is still the
\* list the summary holds, and what the call appends shows in the summary.
HeldAfter(h, before, after) ==
    IF h.kind = "summary" /\ h.shared /\ ResetChecker(before).results = before.results
    THEN [h EXCEPT !.intact = h.intact /\ after.results = before.results]
    ELSE [h EXCEPT !.shared = FALSE]

\* The thirteen rules in execution order, each with the columns its
\* "in df.columns" test asks for.
Rules ==
    << [rule |-> "completeness", col |-> "product_id", requires |-> {"product_id"}],
       [rule |-> "completeness", col |-> "product_name", requires |-> {"product_name"}],
       [rule |-> "completeness", col |-> "quantity", requires |-> {"quantity"}],
       [rule |-> "completeness", col |-> "batch_number", requires |-> {"batch_number"}],
       [rule |-> "uniqueness", col |-> "batch_number", requires |-> {"batch_number"}],
       [rule |-> "uniqueness", col |-> "product_id+batch_number",
        requires |-> {"product_id", "batch_number"}],
       [rule |-> "validity", col |-> "quantity", requires |-> {"quantity"}],
       [rule |-> "validity", col |-> "unit_price", requires |-> {"unit_price"}],
       [rule |-> "validity", col |-> "expiry_date", requires |-> {"expiry_date"}],
       [rule |-> "consistency", col |-> "expiry_date",
        requires |-> {"expiry_date", "manufacture_date"}],
       [rule |-> "consistency", col |-> "warehouse_location",
        requires |-> {"warehouse_location"}],
       [rule |-> "accuracy", col |-> "quantity", requires |-> {"quantity"}],
       [rule |-> "accuracy", col |-> "unit_price", requires |-> {"unit_price"}] >>

\* The rules whose columns a dataset has.
Applicable(d) == {i \in DOMAIN Rules : Rules[i].requires \subseteq d.columns}

\* The results a list holds for one rule.
ResultsOf(results, rule, col) ==
    {j \in DOMAIN results : results[j].message.rule = rule /\ results[j].message.col = col}

----------------
(* GreatExpectationsValidator *)

\* One expectation of the report.
Expectation(type, col, success, count, n) ==
    [expectation_type |-> type, column |-> col, success |-> success,
     element_count |-> n, unexpected_count |-> count]

\* _expect_column_values_to_not_be_null
expect_column_values_to_not_be_null(d, col) ==
    LET null_count == CountIf(Col(d, col), isnull)
    IN  Expectation("not_be_null", col, null_count = 0, null_count, Len(d.rows))

\* _expect_column_values_to_be_between
expect_column_values_to_be_between(d, col, min_value, max_value) ==
    LET OutOfRange(x) == x.k = "num" /\ (x.n < min_value \/ x.n > max_value)
        out_of_range == CountIf(Col(d, col), OutOfRange)
    IN  Expectation("be_between", col, out_of_range = 0, out_of_range, Len(d.rows))

\* _expect_column_values_to_be_unique
expect_column_values_to_be_unique(d, col) ==
    LET duplicate_count == duplicated_sum(Col(d, col))
    IN  Expectation("be_unique", col, duplicate_count = 0, duplicate_count, Len(d.rows))

\* The exception the suite raises on d, "none" when it returns: df[column]
\* raises KeyError for an absent column, and an ordered comparison raises
\* TypeError on text; the first expectation that raises ends the call.
SuiteException(d) ==
    IF "product_id" \notin d.columns \/ "quantity" \notin d.columns THEN "KeyError"
    ELSE IF ~Comparable(Col(d, "quantity")) THEN "TypeError"
    ELSE IF "unit_price" \notin d.columns THEN "KeyError"
    ELSE IF ~Comparable(Col(d, "unit_price")) THEN "TypeError"
    ELSE IF "batch_number" \notin d.columns THEN "KeyError"
    ELSE "none"

SuiteRaise(e) ==
    [kind |-> "raise", exc |-> e, success |-> FALSE, evaluated_expectations |-> 0,
     successful_expectations |-> 0, unsuccessful_expectations |-> 0,
     success_percent |-> 0, results |-> <<>>]

NoSuite == [SuiteRaise("none") EXCEPT !.kind = "none"]

\* create_expectation_suite with any() in place of all() for success.
SuiteReport_success_any(d) ==
    IF SuiteException(d) # "none" THEN SuiteRaise(SuiteException(d))
    ELSE LET expectations ==
                 << expect_column_values_to_not_be_null(d, "product_id"),
                    expect_column_values_to_not_be_null(d, "quantity"),
                    expect_column_values_to_be_between(d, "quantity", 0, QuantityBound),
                    expect_column_values_to_be_between(d, "unit_price", 0, PriceBound),
                    expect_column_values_to_be_unique(d, "batch_number") >>
             success_count == Cardinality({i \in DOMAIN expectations : expectations[i].success})
         IN  [kind |-> "report",
              exc |-> "none",
              success |-> \E i \in DOMAIN expectations : expectations[i].success,
              evaluated_expectations |-> Len(expectations),
              successful_expectations |-> success_count,
              unsuccessful_expectations |-> Len(expectations) - success_count,
              success_percent |-> Pct(success_count, Len(expectations)),
              results |-> expectations]

\* The report of create_expectation_suite; success_percent in hundredths of
\* a percent.
SuiteReport(d) ==
    IF SuiteException(d) # "none" THEN SuiteRaise(SuiteException(d))
    ELSE LET expectations ==
                 << expect_column_values_to_not_be_null(d, "product_id"),
                    expect_column_values_to_not_be_null(d, "quantity"),
                    expect_column_values_to_be_between(d, "quantity", 0, QuantityBound),
                    expect_column_values_to_be_between(d, "unit_price", 0, PriceBound),
                    expect_column_values_to_be_unique(d, "batch_number") >>
             success_count == Cardinality({i \in DOMAIN expectations : expectations[i].success})
         IN  [kind |-> "report",
              exc |-> "none",
              success |-> \A i \in DOMAIN expectations : expectations[i].success,
              evaluated_expectations |-> Len(expectations),
              successful_expectations |-> success_count,
              unsuccessful_expectations |-> Len(expectations) - success_count,
              success_percent |-> Pct(success_count, Len(expectations)),
              results |-> expectations]

\* create_expectation_suite on a validator whose results attribute is g:
\* the attribute it leaves and what the caller gets.  The method builds its
\* report in a local list and never touches self.results.
create_expectation_suite(g, d) == [g |-> g, ret |-> SuiteReport(d)]

----------------------------------------------------------------------------
(* Input datasets *)

MaxRows == 2

Row(pid, name, batch, qty, price, exp, man, wh) ==
    [c \in Columns |->
        CASE c = "product_id" -> pid
          [] c = "product_name" -> name
          [] c = "batch_number" -> batch
          [] c = "quantity" -> qty
          [] c = "unit_price" -> price
          [] c = "expiry_date" -> exp
          [] c = "manufacture_date" -> man
          [] c = "warehouse_location" -> wh]

\* The rows the datasets are made of: the valid row of the test fixture; a
\* valid row that only draws warnings; a row with a negative quantity and
\* price, its dates in the wrong order and the batch of the first row; a row
\* that repeats the product and batch of the first; a row of unusable
\* values; a row of nulls.
RowSamples ==
    { Row(Str("PROD001"), Str("Paracetamol"), Str("BATCH-001"), Num(5000), Num(3),
          Date(3), Date(1), Str("Warehouse A")),
      Row(Str("PROD002"), Str("Amoxicillin"), Str("BATCH-002"), Num(2000000), Num(0),
          Str("2025-01-01"), Str("2024-06-01"), Str("Invalid")),
      Row(Str("PROD002"), Null, Str("BATCH-001"), Num(-500), Num(-5),
          Date(1), Date(2), Str("Warehouse B")),
      Row(Str("PROD001"), Str("Paracetamol"), Str("BATCH-001"), Num(0), Num(200000),
          Date(3), Date(3), Str("Unknown")),
      Row(Null, Str("Insulin"), Null, Str("abc"), Str("n/a"),
          Str("garbage"), Str("2024-01-01"), Null),
      Row(Str("PROD003"), Str("Insulin"), Str("BATCH-003"), Null, Null,
          Null, Str("n/a"), Str("Warehouse C")) }

RECURSIVE SeqsUpTo(_, _)
SeqsUpTo(S, n) ==
    IF n = 0 THEN {<<>>}
    ELSE LET shorter == SeqsUpTo(S, n - 1)
         IN  shorter \cup {Append(t, x) : t \in shorter, x \in S}

\* df[cols]: the cells of the columns that are absent do not exist.
Project(cols, rows) ==
    [columns |-> cols,
     rows |-> [i \in 1..Len(rows) |->
                 [c \in Columns |-> IF c \in cols THEN rows[i][c] ELSE Null]]]

\* Three rows with every column: a valid row, a row that is valid but for
\* its negative quantity, and a row with the batch of the valid row under
\* another or the same product; in every order.
ScenarioRowA ==
    Row(Str("PROD001"), Str("Paracetamol"), Str("BATCH-001"), Num(5000), Num(3),
        Date(3), Date(1), Str("Warehouse A"))

ScenarioRowB ==
    Row(Str("PROD002"), Str("Amoxicillin"), Str("BATCH-002"), Num(-500), Num(20),
        Date(3), Date(1), Str("Warehouse B"))

ScenarioRowsC ==
    { Row(Str("PROD003"), Str("Insulin"), Str("BATCH-001"), Num(200), Num(45),
          Date(3), Date(2), Str("Warehouse C")),
      Row(Str("PROD001"), Str("Paracetamol"), Str("BATCH-001"), Num(200), Num(3),
          Date(3), Date(2), Str("Warehouse A")) }

ScenarioDatasets ==
    {Project(Columns, t) :
        t \in UNION { { <<ScenarioRowA, ScenarioRowB, c>>, <<ScenarioRowA, c, ScenarioRowB>>,
                        <<ScenarioRowB, ScenarioRowA, c>>, <<ScenarioRowB, c, ScenarioRowA>>,
                        <<c, ScenarioRowA, ScenarioRowB>>, <<c, ScenarioRowB, ScenarioRowA>> } :
                      c \in ScenarioRowsC }}

Datasets ==
    {Project(cols, t) : cols \in SUBSET Columns, t \in SeqsUpTo(RowSamples, MaxRows)}
        \cup ScenarioDatasets

NoDataset == Project({}, <<>>)

\* The datasets a reused checker is given: the valid row, the row with a
\* negative quantity and a repeated batch, and the row of unusable values,
\* under the column sets that run every rule, some rules and no rule.
ReuseRows ==
    { Row(Str("PROD001"), Str("Paracetamol"), Str("BATCH-001"), Num(5000), Num(3),
          Date(3), Date(1), Str("Warehouse A")),
      Row(Str("PROD002"), Str("Amoxicillin"), Str("BATCH-001"), Num(-500), Num(20),
          Date(1), Date(2), Str("Warehouse B")),
      Row(Null, Str("Insulin"), Null, Str("abc"), Null,
          Str("garbage"), Str("2024-01-01"), Null) }

ReuseColumnSets ==
    { Columns,
      Columns \ {"quantity"},
      Columns \ {"quantity", "unit_price"},
      {"product_id", "batch_number"},
      {"unit_price", "warehouse_location"},
      {"expiry_date"},
      {"manufacture_date"},
      {} }

ReuseDatasets ==
    {Project(cols, t) : cols \in ReuseColumnSets, t \in SeqsUpTo(ReuseRows, MaxRows)}

----------------------------------------------------------------------------
(* The DAGs: healthcare_supply_chain_etl and data_quality_monitoring *)

\* extract_data >> validate_raw_data >> ... >> send_success_notification
EtlTasks ==
    << "extract_data", "validate_raw_data", "transform_data", "validate_transformed_data",
       "load_data", "verify_load", "log_pipeline_execution", "send_success_notification" >>

\* fetch_latest_data >> run_quality_checks >> generate_quality_report
QualityTasks == << "fetch_latest_data", "run_quality_checks", "generate_quality_report" >>

Range(seq) == {seq[i] : i \in DOMAIN seq}

Tasks == Range(EtlTasks) \cup Range(QualityTasks)

DagOf(t) ==
    IF t \in Range(EtlTasks) THEN "healthcare_supply_chain_etl" ELSE "data_quality_monitoring"

\* The tasks a task waits for: each chain is linear.
Upstream(t) ==
    LET chain == IF t \in Range(EtlTasks) THEN EtlTasks ELSE QualityTasks
        i == CHOOSE k \in DOMAIN chain : chain[k] = t
    IN  IF i = 1 THEN {} ELSE {chain[i - 1]}

\* default_args['retries'] of the two DAGs.
EtlRetries == 3

QualityRetries == 2

Retries(t) == IF t \in Range(EtlTasks) THEN EtlRetries ELSE QualityRetries

\* df.to_json(orient='records') pushed to XCom and pd.read_json of it: a
\* frame without rows comes back without columns, a datetime comes back as
\* its epoch number (no rule column has a name read_json takes for a date),
\* numbers, text and nulls come back as they were.
JsonRoundTrip(d) ==
    IF Len(d.rows) = 0 THEN [columns |-> {}, rows |-> <<>>]
    ELSE [columns |-> d.columns,
          rows |-> [i \in 1..Len(d.rows) |->
                      [c \in DOMAIN d.rows[i] |->
                          IF d.rows[i][c].k = "date" THEN Num(d.rows[i][c].n)
                          ELSE d.rows[i][c]]]]

NoResults ==
    [kind |-> "none", basic_checks |-> NoCall, great_expectations |-> NoSuite,
     overall_status |-> ""]

NoXcom ==
    [raw_data |-> NoDataset, validation_result |-> NoCall,
     data |-> NoDataset, quality_results |-> NoResults]

\* How validate_raw_data_task ends once validate_all has returned: it raises
\* ValueError on a FAIL status.
RawOutcome_never_raises(result) == "return"

RawOutcome(result) == IF result.status = "FAIL" THEN "raise" ELSE "return"

\* The rest of validate_raw_data_task once validate_all has ended with r:
\* the task's checker, what validate_all did, whether validation_result is
\* pushed, how the task ends.
RawTaskResult(r) ==
    IF r.ret.kind = "raise"
    THEN [c |-> r.c, ret |-> r.ret, pushed |-> FALSE, outcome |-> "raise"]
    ELSE [c |-> r.c, ret |-> r.ret, pushed |-> TRUE, outcome |-> RawOutcome(r.ret)]

\* validate_raw_data_task on the pulled frame.
validate_raw_data_task(data) == RawTaskResult(validate_all(NewChecker, data))

\* The overall_status with "or" in place of "and".
OverallStatus_or(basic_results, suite_results) ==
    IF basic_results.status = "PASS" \/ suite_results.success THEN "PASS" ELSE "FAIL"

\* 'PASS' if basic_results['status'] == 'PASS' and ge_results['success'] else 'FAIL'
OverallStatus(basic_results, suite_results) ==
    IF basic_results.status = "PASS" /\ suite_results.success THEN "PASS" ELSE "FAIL"

\* The rest of run_quality_checks_task once validate_all has ended with r
\* and create_expectation_suite with g: an exception of either validator
\* ends the task before anything is pushed (the suite is not reached when
\* validate_all raises); otherwise the results are pushed and the task
\* raises ValueError on an overall FAIL.
QualityTaskResult(r, g) ==
    IF r.ret.kind = "raise"
    THEN [c |-> r.c, ret |-> r.ret, ge_ret |-> NoSuite, results |-> NoResults,
          outcome |-> "raise"]
    ELSE IF g.ret.kind = "raise"
    THEN [c |-> r.c, ret |-> r.ret, ge_ret |-> g.ret, results |-> NoResults,
          outcome |-> "raise"]
    ELSE [c |-> r.c, ret |-> r.ret, ge_ret |-> g.ret,
          results |-> [kind |-> "pushed",
                       basic_checks |-> r.ret,
                       great_expectations |-> g.ret,
                       overall_status |-> OverallStatus(r.ret, g.ret)],
          outcome |-> IF OverallStatus(r.ret, g.ret) = "FAIL" THEN "raise" ELSE "return"]

\* run_quality_checks_task on the pulled frame.
run_quality_checks_task(data) ==
    QualityTaskResult(validate_all(NewChecker, data), create_expectation_suite(<<>>, data))

\* The frames the extraction and the fetch deliver: the valid row, the row
\* that only draws warnings (its quantity is out of the suite's range), a
\* row whose only fault is a missing name, and the row of unusable values;
\* with every column, and with no column a rule reads.
DagRows ==
    { Row(Str("PROD001"), Str("Paracetamol"), Str("BATCH-001"), Num(5000), Num(3),
          Date(3), Date(1), Str("Warehouse A")),
      Row(Str("PROD002"), Str("Amoxicillin"), Str("BATCH-002"), Num(2000000), Num(0),
          Str("2025-01-01"), Str("2024-06-01"), Str("Invalid")),
      Row(Str("PROD003"), Null, Str("BATCH-003"), Num(10), Num(10),
          Date(3), Date(2), Str("Warehouse C")),
      Row(Null, Str("Insulin"), Null, Str("abc"), Str("n/a"),
          Str("garbage"), Str("2024-01-01"), Null) }

DagDatasets ==
    {Project(cols, t) : cols \in {Columns, {"manufacture_date"}}, t \in SeqsUpTo(DagRows, MaxRows)}

----------------------------------------------------------------------------
(* DataTransformer *)

\* A pandas bool.
Bool(b) == [k |-> "bool", s |-> "", n |-> IF b THEN 1 ELSE 0]

\* df[mask]: the rows at the positions in keep, in their order.
Mask(rows, keep) ==
    [k \in 1..Cardinality(keep) |->
        rows[CHOOSE i \in keep : Cardinality({j \in keep : j < i}) = k - 1]]

\* df.drop_duplicates(): a row equal to an earlier row in every column goes
\* (nulls are equal to each other).
drop_duplicates(d) ==
    [columns |-> d.columns,
     rows |-> Mask(d.rows, {i \in 1..Len(d.rows) : \A j \in 1..(i - 1) : d.rows[j] # d.rows[i]})]

\* The dtype pandas gives a column: numbers (with NaN) make a numeric
\* column, datetimes (with NaT) a datetime column, text or a mix an object
\* column.  A column of nulls only is whichever of the three its nulls are
\* (None, NaN or NaT): empty is that dtype.
dtype(d, col, empty) ==
    LET kinds == {d.rows[i][col].k : i \in 1..Len(d.rows)} \ {"null"}
    IN  IF kinds = {} THEN empty
        ELSE IF kinds = {"num"} THEN "number"
        ELSE IF kinds = {"date"} THEN "datetime"
        ELSE "object"

\* fillna on one column of the given dtype: other dtypes are not selected
\* and keep their nulls.
fillna(c, dt) ==
    IF ~isnull(c) THEN c
    ELSE IF dt = "number" THEN Num(0)
    ELSE IF dt = "object" THEN Str("Unknown")
    ELSE c

\* _handle_nulls
handle_nulls(d, empty) ==
    [columns |-> d.columns,
     rows |-> [i \in 1..Len(d.rows) |->
                 [c \in Columns |->
                     IF c \in d.columns THEN fillna(d.rows[i][c], dtype(d, c, empty))
                     ELSE d.rows[i][c]]]]

\* Texts pd.to_numeric reads as numbers, with the number.
NumText == [t \in {"100", "-50"} |-> IF t = "100" THEN 100 ELSE -50]

\* pd.to_numeric(errors='coerce') on one value: what is no number becomes
\* NaN, a datetime its epoch number.
to_numeric(c) ==
    IF c.k = "str"
    THEN IF c.s \in DOMAIN NumText THEN Num(NumText[c.s]) ELSE Null
    ELSE IF c.k = "date" THEN Num(c.n)
    ELSE c

\* pd.to_datetime(errors='coerce') on one value: what cannot be parsed
\* becomes NaT.
to_datetime_coerce(c) == IF Parseable(c) THEN to_datetime(c) ELSE Null

\* _convert_datatypes
convert_datatypes(d) ==
    [columns |-> d.columns,
     rows |-> [i \in 1..Len(d.rows) |->
                 [c \in Columns |->
                     IF c \notin d.columns THEN d.rows[i][c]
                     ELSE IF c \in {"expiry_date", "manufacture_date"}
                          THEN to_datetime_coerce(d.rows[i][c])
                     ELSE IF c \in {"quantity", "unit_price"} THEN to_numeric(d.rows[i][c])
                     ELSE d.rows[i][c]]]]

\* df['quantity'] >= 0: NaN compares False.
NotNegative(c) == c.k = "num" /\ c.n >= 0

\* df['expiry_date'] > df['manufacture_date']: NaT compares False.
ExpiryAfter(row) ==
    /\ row["expiry_date"].k = "date"
    /\ row["manufacture_date"].k = "date"
    /\ row["expiry_date"].n > row["manufacture_date"].n

\* df[df['quantity'] >= 0] when there is a quantity column.
quantity_filter(d) ==
    IF "quantity" \in d.columns
    THEN [columns |-> d.columns,
          rows |-> Mask(d.rows, {i \in 1..Len(d.rows) : NotNegative(d.rows[i]["quantity"])})]
    ELSE d

\* df[df['expiry_date'] > df['manufacture_date']] when there are both.
date_filter(d) ==
    IF {"expiry_date", "manufacture_date"} \subseteq d.columns
    THEN [columns |-> d.columns,
          rows |-> Mask(d.rows, {i \in 1..Len(d.rows) : ExpiryAfter(d.rows[i])})]
    ELSE d

\* _validate_data without the filter on quantity.
validate_data_keeps_negative(d) == date_filter(d)

\* _validate_data keeping the rows whose dates do not decrease.
validate_data_dates_not_before(d) ==
    LET q == quantity_filter(d)
    IN  IF {"expiry_date", "manufacture_date"} \subseteq q.columns
        THEN [columns |-> q.columns,
              rows |-> Mask(q.rows,
                            {i \in 1..Len(q.rows) :
                                /\ q.rows[i]["expiry_date"].k = "date"
                                /\ q.rows[i]["manufacture_date"].k = "date"
                                /\ q.rows[i]["expiry_date"].n >= q.rows[i]["manufacture_date"].n})]
        ELSE q

\* _validate_data
validate_data(d) == date_filter(quantity_filter(d))

\* The frame clean_data has before it validates: duplicates dropped, nulls
\* filled, the column names normalised (every name of Columns is already
\* lower case without blanks) and the types converted.
converted(d, empty) == convert_datatypes(handle_nulls(drop_duplicates(d), empty))

\* clean_data that returns the converted frame as it is.
clean_data_unvalidated(d, empty) == converted(d, empty)

\* clean_data
clean_data(d, empty) == validate_data(converted(d, empty))

\* The columns enrich_data adds.
EnrichedColumns ==
    {"days_until_expiry", "total_value", "expiry_alert", "expiry_critical", "stock_level"}

\* The day of a datetime, counted from 1970-01-01: the three dates of
\* DateText, and the epoch for the datetime made of the number 0.
DayOf(n) ==
    CASE n = 1 -> 19723
      [] n = 2 -> 19875
      [] n = 3 -> 20089
      [] OTHER -> 0

\* (df['expiry_date'] - pd.Timestamp.now()).dt.days: whole days, rounded
\* down, so one less than the difference of the days unless now is midnight.
days_until_expiry(c, now) ==
    IF c.k = "date"
    THEN Num(DayOf(c.n) - now.day - (IF now.midnight THEN 0 ELSE 1))
    ELSE Null

\* df['quantity'] * df['unit_price']: NaN where either is NaN.
total_value(q, p) == IF q.k = "num" /\ p.k = "num" THEN Num(q.n * p.n) ELSE Null

\* pd.cut(df['quantity'], bins=[0, 100, 1000, 5000, inf]): the intervals are
\* closed on the right, and a quantity in none of them has no level.
stock_level(q) ==
    IF q.k # "num" \/ q.n <= 0 THEN Null
    ELSE IF q.n <= 100 THEN Str("Low")
    ELSE IF q.n <= 1000 THEN Str("Medium")
    ELSE IF q.n <= 5000 THEN Str("High")
    ELSE Str("Very High")

\* df['days_until_expiry'] < limit: NaN compares False.
Below(c, limit) == Bool(c.k = "num" /\ c.n < limit)

\* enrich_data on a frame clean_data returned, its dates datetimes and its
\* quantity and unit_price numbers.
enrich_data(d, now) ==
    LET expiry == "expiry_date" \in d.columns
        value == {"quantity", "unit_price"} \subseteq d.columns
        level == "quantity" \in d.columns
    IN  [columns |-> d.columns
                       \cup (IF expiry
                             THEN {"days_until_expiry", "expiry_alert", "expiry_critical"}
                             ELSE {})
                       \cup (IF value THEN {"total_value"} ELSE {})
                       \cup (IF level THEN {"stock_level"} ELSE {}),
         rows |-> [i \in 1..Len(d.rows) |->
                     [c \in Columns \cup EnrichedColumns |->
                         CASE c \in Columns -> d.rows[i][c]
                           [] c = "days_until_expiry" /\ expiry ->
                                days_until_expiry(d.rows[i]["expiry_date"], now)
                           [] c = "expiry_alert" /\ expiry ->
                                Below(days_until_expiry(d.rows[i]["expiry_date"], now), 30)
                           [] c = "expiry_critical" /\ expiry ->
                                Below(days_until_expiry(d.rows[i]["expiry_date"], now), 7)
                           [] c = "total_value" /\ value ->
                                total_value(d.rows[i]["quantity"], d.rows[i]["unit_price"])
                           [] c = "stock_level" /\ level -> stock_level(d.rows[i]["quantity"])
                           [] OTHER -> Null]]]

\* required_columns of validate_transformed_data_task
required_columns == {"days_until_expiry", "total_value", "stock_level"}

\* validate_transformed_data_task on the transformed data as transform_data
\* pushed it and as it is read back: it raises when a required column is
\* missing.
validate_transformed_data_task(data) ==
    IF required_columns \subseteq JsonRoundTrip(data).columns THEN "return" ELSE "raise"

\* The moments enrich_data is run at: long before the latest expiry date,
\* within a week of it, and at its midnight.
Nows ==
    { [day |-> 19800, midnight |-> FALSE],
      [day |-> 20085, midnight |-> FALSE],
      [day |-> 20089, midnight |-> TRUE] }

\* The rows the transformer is given: the valid row of the test fixture; the
\* same row without a warehouse, and with the warehouse 'Unknown'; a row
\* with a negative quantity; a row whose numbers and dates are text, the
\* price no number; a row of nulls; a row with quantity and price zero and
\* its two dates equal; a row with a quantity and an expiry date that are
\* no number and no date.
TransformRows ==
    { Row(Str("PROD001"), Str("Paracetamol"), Str("BATCH-001"), Num(5000), Num(3),
          Date(3), Date(1), Str("Warehouse A")),
      Row(Str("PROD001"), Str("Paracetamol"), Str("BATCH-001"), Num(5000), Num(3),
          Date(3), Date(1), Null),
      Row(Str("PROD001"), Str("Paracetamol"), Str("BATCH-001"), Num(5000), Num(3),
          Date(3), Date(1), Str("Unknown")),
      Row(Str("PROD002"), Str("Amoxicillin"), Str("BATCH-002"), Num(-500), Num(20),
          Date(3), Date(1), Str("Warehouse B")),
      Row(Str("PROD003"), Str("Insulin"), Str("BATCH-003"), Str("100"), Str("n/a"),
          Str("2025-01-01"), Str("2024-06-01"), Str("Warehouse C")),
      Row(Null, Null, Null, Null, Null, Null, Null, Null),
      Row(Str("PROD004"), Str("Ibuprofen"), Str("BATCH-004"), Num(0), Num(0),
          Date(2), Date(2), Str("Warehouse A")),
      Row(Str("PROD005"), Str("Aspirin"), Str("BATCH-005"), Str("abc"), Num(7),
          Str("garbage"), Date(1), Str("Warehouse B")) }

TransformColumnSets ==
    { Columns,
      {"product_id", "quantity", "unit_price", "expiry_date"},
      {"product_id", "quantity", "unit_price"},
      {"unit_price", "warehouse_location"},
      {"expiry_date", "manufacture_date"},
      {"expiry_date"} }

TransformDatasets ==
    {Project(cols, t) : cols \in TransformColumnSets, t \in SeqsUpTo(TransformRows, MaxRows)}

\* The dtypes a column of nulls can have.
Dtypes == {"number", "object", "datetime"}

----------------------------------------------------------------------------
(* DataLoader *)

\* batch_size of load_to_database
batch_size == 100

MaxRecords == 250

Min(a, b) == IF a < b THEN a ELSE b

\* records[i:i + batch_size + 1]
batch_one_more(recs, i) == SubSeq(recs, i + 1, Min(i + batch_size + 1, Len(recs)))

\* records[i:i + batch_size]
batch(recs, i) == SubSeq(recs, i + 1, Min(i + batch_size, Len(recs)))

NoLoad == [kind |-> "none", value |-> 0]

----------------------------------------------------------------------------
(* The validator in use *)

Init ==
    /\ checker = NewChecker
    /\ df = NoDataset
    /\ df_after = NoDataset
    /\ held = NoHeld
    /\ ret = NoCall
    /\ ge_results = <<>>
    /\ ge_ret = NoSuite
    /\ entry = [n |-> 0, kind |-> "none"]
    /\ dag_id = "none"
    /\ ti = [t \in Tasks |-> "none"]
    /\ tries = [t \in Tasks |-> 0]
    /\ outcome = [t \in Tasks |-> "none"]
    /\ xcom = NoXcom
    /\ executed = {}
    /\ step = "start"
    /\ df_raw = NoDataset
    /\ nulls = "object"
    /\ df_clean = NoDataset
    /\ df_enriched = NoDataset
    /\ transformed = "none"
    /\ records = <<>>
    /\ load_i = 0
    /\ total_loaded = 0
    /\ load_pc = "idle"
    /\ load_ret = NoLoad
    /\ inserted = <<>>

\* The call has ended with r: the checker is left as the call left it, the
\* caller has r.ret, and a summary held from before is what the call made
\* of it.
Returned(r) ==
    /\ checker' = r.c
    /\ ret' = r.ret
    /\ held' = HeldAfter(HeldAtEntry(ret, held), checker, r.c)

\* checker.validate_all(d)
ValidateAll(d) ==
    /\ Returned(validate_all(checker, d))
    /\ df' = d
    /\ df_after' = frame_after_validate_all(d)
    /\ ge_ret' = NoSuite
    /\ entry' = [n |-> Len(checker.results), kind |-> ret.kind]
    /\ UNCHANGED <<ge_results, dag_vars, etl_vars>>

\* ge_validator.create_expectation_suite(df), on the dataset the caller has
\* just validated, as run_quality_checks_task does.
SuiteReturned(r) ==
    /\ ge_results' = r.g
    /\ ge_ret' = r.ret

CreateExpectationSuite ==
    /\ ret.kind # "none"
    /\ SuiteReturned(create_expectation_suite(ge_results, df))
    /\ UNCHANGED <<checker, df, df_after, ret, entry, held, dag_vars, etl_vars>>

\* checker = DataQualityChecker(); ge_validator = GreatExpectationsValidator():
\* the caller goes on with new validators and a new dataset.
Construct ==
    /\ ret.kind # "none"
    /\ checker' = NewChecker
    /\ ge_results' = <<>>
    /\ df' = NoDataset
    /\ df_after' = NoDataset
    /\ held' = NoHeld
    /\ ret' = NoCall
    /\ ge_ret' = NoSuite
    /\ entry' = [n |-> 0, kind |-> "none"]
    /\ UNCHANGED <<dag_vars, etl_vars>>

\* Every call site of the repository validates on a checker it has just
\* constructed.
Next ==
    \/ ret.kind = "none" /\ \E d \in Datasets : ValidateAll(d)
    \/ CreateExpectationSuite
    \/ Construct

Spec == Init /\ [][Next]_vars

\* One checker used for call after call.
NextReuse ==
    \/ \E d \in ReuseDatasets : ValidateAll(d)
    \/ CreateExpectationSuite

SpecReuse == Init /\ [][NextReuse]_vars

----------------------------------------------------------------------------
(* The scheduler and the tasks *)

\* A run of one of the two DAGs is created.
TriggerDagRun(id) ==
    /\ dag_id = "none"
    /\ dag_id' = id
    /\ UNCHANGED <<validator_vars, ti, tries, outcome, xcom, executed, etl_vars>>

\* The default trigger rule, all_success: a task is run when it has not run
\* or awaits a retry, and every upstream task has succeeded.
Runnable(t) ==
    /\ dag_id = DagOf(t)
    /\ ti[t] \in {"none", "up_for_retry"}
    /\ \A u \in Upstream(t) : ti[u] = "success"

\* The callable of task t has run and ended with o: a raise is retried until
\* the retries are used up, and then the task has failed.
Finish(t, o) ==
    /\ executed' = executed \cup {t}
    /\ outcome' = [outcome EXCEPT ![t] = o]
    /\ tries' = [tries EXCEPT ![t] = @ + 1]
    /\ ti' = [ti EXCEPT ![t] =
                 IF o = "return" THEN "success"
                 ELSE IF tries[t] + 1 > Retries(t) THEN "failed"
                 ELSE "up_for_retry"]

\* A task whose upstream task has failed is never run.
UpstreamFailed(t) ==
    /\ dag_id = DagOf(t)
    /\ ti[t] = "none"
    /\ \E u \in Upstream(t) : ti[u] \in {"failed", "upstream_failed"}
    /\ ti' = [ti EXCEPT ![t] = "upstream_failed"]
    /\ UNCHANGED <<validator_vars, dag_id, tries, outcome, xcom, executed, etl_vars>>

\* extract_data_task: the CSV is read and pushed, or reading it raises.
ExtractData ==
    /\ Runnable("extract_data")
    /\ \/ /\ \E d \in DagDatasets : xcom' = [xcom EXCEPT !.raw_data = JsonRoundTrip(d)]
          /\ Finish("extract_data", "return")
       \/ /\ xcom' = xcom
          /\ Finish("extract_data", "raise")
    /\ UNCHANGED <<validator_vars, dag_id, etl_vars>>

\* validate_raw_data_task
RawTaskEnded(r) ==
    /\ checker' = r.c
    /\ ret' = r.ret
    /\ xcom' = IF r.pushed THEN [xcom EXCEPT !.validation_result = r.ret] ELSE xcom
    /\ Finish("validate_raw_data", r.outcome)

ValidateRawData ==
    /\ Runnable("validate_raw_data")
    /\ RawTaskEnded(validate_raw_data_task(xcom.raw_data))
    /\ df' = xcom.raw_data
    /\ df_after' = frame_after_validate_all(xcom.raw_data)
    /\ ge_ret' = NoSuite
    /\ entry' = [n |-> 0, kind |-> "none"]
    /\ UNCHANGED <<ge_results, held, dag_id, etl_vars>>

\* A task of the ETL DAG whose callable reads what the earlier tasks pushed
\* and works on the transformer, the database or the log: it returns or
\* raises.
EtlStep(t) ==
    /\ Runnable(t)
    /\ \E o \in {"return", "raise"} : Finish(t, o)
    /\ UNCHANGED <<validator_vars, dag_id, xcom, etl_vars>>

TransformData == EtlStep("transform_data")

ValidateTransformedData == EtlStep("validate_transformed_data")

LoadData == EtlStep("load_data")

VerifyLoad == EtlStep("verify_load")

LogPipelineExecution == EtlStep("log_pipeline_execution")

\* send_success_notification_task: it pulls the metrics and logs them.
SendSuccessNotification ==
    /\ Runnable("send_success_notification")
    /\ Finish("send_success_notification", "return")
    /\ UNCHANGED <<validator_vars, dag_id, xcom, etl_vars>>

\* fetch_latest_data_task: the latest rows are pushed, or the query raises.
FetchLatestData ==
    /\ Runnable("fetch_latest_data")
    /\ \/ /\ \E d \in DagDatasets : xcom' = [xcom EXCEPT !.data = JsonRoundTrip(d)]
          /\ Finish("fetch_latest_data", "return")
       \/ /\ xcom' = xcom
          /\ Finish("fetch_latest_data", "raise")
    /\ UNCHANGED <<validator_vars, dag_id, etl_vars>>

\* run_quality_checks_task
QualityTaskEnded(r) ==
    /\ checker' = r.c
    /\ ret' = r.ret
    /\ ge_ret' = r.ge_ret
    /\ xcom' = IF r.results.kind = "pushed"
               THEN [xcom EXCEPT !.quality_results = r.results] ELSE xcom
    /\ Finish("run_quality_checks", r.outcome)

RunQualityChecks ==
    /\ Runnable("run_quality_checks")
    /\ QualityTaskEnded(run_quality_checks_task(xcom.data))
    /\ df' = xcom.data
    /\ df_after' = frame_after_validate_all(xcom.data)
    /\ entry' = [n |-> 0, kind |-> "none"]
    /\ UNCHANGED <<ge_results, held, dag_id, etl_vars>>

\* generate_quality_report_task: it formats the pushed results.
GenerateQualityReport ==
    /\ Runnable("generate_quality_report")
    /\ Finish("generate_quality_report", "return")
    /\ UNCHANGED <<validator_vars, dag_id, xcom, etl_vars>>

NextDag ==
    \/ \E id \in {"healthcare_supply_chain_etl", "data_quality_monitoring"} : TriggerDagRun(id)
    \/ \E t \in Tasks : UpstreamFailed(t)
    \/ ExtractData
    \/ ValidateRawData
    \/ TransformData
    \/ ValidateTransformedData
    \/ LoadData
    \/ VerifyLoad
    \/ LogPipelineExecution
    \/ SendSuccessNotification
    \/ FetchLatestData
    \/ RunQualityChecks
    \/ GenerateQualityReport

SpecDag == Init /\ [][NextDag]_vars

----------------------------------------------------------------------------
(* The transformer in use *)

\* df_clean = transformer.clean_data(d), on a checker and a transformer the
\* caller has just constructed.
CleanData(d, empty) ==
    /\ step = "start"
    /\ step' = "cleaned"
    /\ df_raw' = d
    /\ nulls' = empty
    /\ df_clean' = clean_data(d, empty)
    /\ UNCHANGED <<df_enriched, transformed, validator_vars, dag_vars, load_vars>>

\* checker.validate_all(df_clean)
ValidateClean ==
    /\ step = "cleaned"
    /\ ret.kind = "none"
    /\ ValidateAll(df_clean)

\* df_enriched = transformer.enrich_data(df_clean): the columns are written
\* into the frame passed in, which is the frame returned.
EnrichData(now) ==
    /\ step = "cleaned"
    /\ step' = "enriched"
    /\ df_enriched' = enrich_data(df_clean, now)
    /\ df_clean' = enrich_data(df_clean, now)
    /\ UNCHANGED <<df_raw, nulls, transformed, validator_vars, dag_vars, load_vars>>

\* validate_transformed_data_task on what transform_data_task pushes.
CheckTransformed ==
    /\ step = "enriched"
    /\ step' = "checked"
    /\ transformed' = validate_transformed_data_task(df_enriched)
    /\ UNCHANGED <<df_raw, nulls, df_clean, df_enriched, validator_vars, dag_vars, load_vars>>

\* The caller goes on with a new transformer, a new checker and a new
\* dataset.
NewTransformer ==
    /\ step = "checked"
    /\ step' = "start"
    /\ df_raw' = NoDataset
    /\ nulls' = "object"
    /\ df_clean' = NoDataset
    /\ df_enriched' = NoDataset
    /\ transformed' = "none"
    /\ checker' = NewChecker
    /\ df' = NoDataset
    /\ df_after' = NoDataset
    /\ held' = NoHeld
    /\ ret' = NoCall
    /\ entry' = [n |-> 0, kind |-> "none"]
    /\ UNCHANGED <<ge_results, ge_ret, dag_vars, load_vars>>

NextTransform ==
    \/ \E d \in TransformDatasets, empty \in Dtypes : CleanData(d, empty)
    \/ ValidateClean
    \/ \E now \in Nows : EnrichData(now)
    \/ CheckTransformed
    \/ NewTransformer

SpecTransform == Init /\ [][NextTransform]_vars

----------------------------------------------------------------------------
(* The loader in use *)

\* load_to_database(df) up to its loop: _prepare_for_loading either raises
\* (a date it cannot parse), and the except clause re-raises, or gives the
\* n records of the frame, here numbered in their order.
LoadToDatabase(n, prepared) ==
    /\ load_pc = "idle"
    /\ IF prepared
       THEN /\ records' = [k \in 1..n |-> k]
            /\ load_pc' = "loop"
            /\ load_ret' = load_ret
       ELSE /\ records' = records
            /\ load_pc' = "done"
            /\ load_ret' = [kind |-> "raise", value |-> 0]
    /\ load_i' = 0
    /\ total_loaded' = 0
    /\ UNCHANGED <<inserted, validator_vars, dag_vars, transform_vars>>

\* One turn of the loop: the insert of the batch is executed.
InsertBatch ==
    /\ load_pc = "loop"
    /\ load_i < Len(records)
    /\ inserted' = Append(inserted, batch(records, load_i))
    /\ total_loaded' = total_loaded + Len(batch(records, load_i))
    /\ load_i' = load_i + batch_size
    /\ UNCHANGED <<records, load_pc, load_ret, validator_vars, dag_vars, transform_vars>>

\* The insert of the batch raises: the except clause logs and re-raises.
InsertFails ==
    /\ load_pc = "loop"
    /\ load_i < Len(records)
    /\ load_pc' = "done"
    /\ load_ret' = [kind |-> "raise", value |-> 0]
    /\ UNCHANGED <<records, load_i, total_loaded, inserted, validator_vars, dag_vars,
                   transform_vars>>

\* The loop is over: return total_loaded.
LoadReturns ==
    /\ load_pc = "loop"
    /\ load_i >= Len(records)
    /\ load_pc' = "done"
    /\ load_ret' = [kind |-> "return", value |-> total_loaded]
    /\ UNCHANGED <<records, load_i, total_loaded, inserted, validator_vars, dag_vars,
                   transform_vars>>

\* The caller goes on with another frame and another, empty table.
NewLoad ==
    /\ load_pc = "done"
    /\ load_pc' = "idle"
    /\ records' = <<>>
    /\ load_i' = 0
    /\ total_loaded' = 0
    /\ load_ret' = NoLoad
    /\ inserted' = <<>>
    /\ UNCHANGED <<validator_vars, dag_vars, transform_vars>>

NextLoad ==
    \/ \E n \in 0..MaxRecords, prepared \in BOOLEAN : LoadToDatabase(n, prepared)
    \/ InsertBatch
    \/ InsertFails
    \/ LoadReturns
    \/ NewLoad

SpecLoad == Init /\ [][NextLoad]_vars

----------------------------------------------------------------------------
(* Properties of the validator *)

\* How many results of a list have a status in S.
CountStatus(results, S) == Cardinality({j \in DOMAIN results : results[j].status \in S})

\* A present expiry_date column holds a value pandas cannot parse.
UnparseableExpiry(d) ==
    /\ "expiry_date" \in d.columns
    /\ \E i \in 1..Len(d.rows) : ~Parseable(d.rows[i]["expiry_date"])

\* A present column holds text where a rule compares numbers.
NonNumeric(d, col) == col \in d.columns /\ ~Comparable(Col(d, col))

\* No present column holds a value of a type its rules cannot handle.
WellTyped(d) ==
    /\ ~NonNumeric(d, "quantity")
    /\ ~NonNumeric(d, "unit_price")
    /\ \A col \in {"expiry_date", "manufacture_date"} :
          col \in d.columns => \A i \in 1..Len(d.rows) : Parseable(d.rows[i][col])

\* C1: rule isolation: a dataset whose expiry_date column (manufacture_date
\* also present) holds unparseable values, or whose quantity column holds
\* non-numeric values, still gets a summary from validate_all: the rule that
\* met the bad data reports FAIL, every other applicable rule reports its own
\* result, and no exception escapes.
C1_RuleIsolation ==
    (/\ ret.kind # "none"
     /\ \/ UnparseableExpiry(df) /\ "manufacture_date" \in df.columns
        \/ NonNumeric(df, "quantity"))
    => /\ ret.kind = "summary"
       /\ \A i \in Applicable(df) :
              Cardinality(ResultsOf(ret.details, Rules[i].rule, Rules[i].col)) = 1
       /\ UnparseableExpiry(df) =>
              \A j \in ResultsOf(ret.details, "validity", "expiry_date") :
                  ret.details[j].status = "FAIL"

\* C2: missing columns are never an error: for a dataset of well-typed values
\* holding any subset of the rule columns, the empty subset included,
\* validate_all returns a summary whose total_checks is the number of rules
\* that ran.
C2_MissingColumnsNoError ==
    (ret.kind # "none" /\ WellTyped(df))
    => /\ ret.kind = "summary"
       /\ ret.total_checks = Cardinality(Applicable(df))

\* C3: in every summary, status is PASS if and only if the reported
\* (two-decimal) success_rate is at least 95.00, and FAIL otherwise.
C3_StatusIffReportedRate ==
    ret.kind = "summary"
    => /\ ret.status \in {"PASS", "FAIL"}
       /\ ret.status = "PASS" <=> ret.success_rate >= 9500

\* C3 witness: a summary one failure short of a full score, the rate nearest
\* to the threshold from below.
C3_Witness ==
    /\ ret.kind = "summary"
    /\ ret.total_checks = 13
    /\ ret.failed = 1
    /\ ret.status = "FAIL"

\* C4: no state leaks between calls: whatever the checker held when the call
\* began (results of an earlier call, or the partial results of a call that
\* aborted), the call leaves the checker and hands back what a fresh checker
\* does for the same dataset; the expectation suite's report is that of a
\* fresh validator and the validator's results attribute stays empty.
C4_NoStateLeak ==
    /\ ret.kind # "none" =>
          /\ ret = validate_all(NewChecker, df).ret
          /\ checker = validate_all(NewChecker, df).c
    /\ ge_ret.kind # "none" => ge_ret = create_expectation_suite(<<>>, df).ret
    /\ ge_results = <<>>

\* C4 witness: a call that returned a summary on a checker still holding the
\* partial results of a call that had aborted, followed by the suite.
C4_Witness ==
    /\ ret.kind = "summary"
    /\ entry.kind = "raise"
    /\ entry.n > 0
    /\ ge_ret.kind = "report"

\* C7: WARN counts as passed: in every summary passed is the number of PASS
\* and WARN results and failed the number of FAIL results; a unit_price
\* column holding a 0 gets a WARN accuracy result, which is among the passed.
C7_WarnCountsAsPassed ==
    ret.kind = "summary"
    => /\ ret.passed = CountStatus(ret.details, {"PASS", "WARN"})
       /\ ret.failed = CountStatus(ret.details, {"FAIL"})
       /\ ("unit_price" \in df.columns /\ \E i \in 1..Len(df.rows) : df.rows[i]["unit_price"] = Num(0))
          => /\ \E j \in ResultsOf(ret.details, "accuracy", "unit_price") :
                    ret.details[j].status = "WARN"
             /\ ret.passed >= 1

\* C7 witness: a summary of a dataset with a price of 0 whose only blemishes
\* are warnings.
C7_Witness ==
    /\ ret.kind = "summary"
    /\ "unit_price" \in df.columns
    /\ \E i \in 1..Len(df.rows) : df.rows[i]["unit_price"] = Num(0)
    /\ CountStatus(ret.details, {"WARN"}) >= 2
    /\ ret.failed = 0

\* No nulls in the critical columns, no duplicate keys, every quantity and
\* price a non-negative number, every date valid and expiry after
\* manufacture.
Clean(d) ==
    /\ \A col \in {"product_id", "product_name", "quantity", "batch_number"} :
          col \in d.columns => CountIf(Col(d, col), isnull) = 0
    /\ "batch_number" \in d.columns => duplicated_sum(Col(d, "batch_number")) = 0
    /\ \A col \in {"quantity", "unit_price"} :
          col \in d.columns => \A i \in 1..Len(d.rows) : d.rows[i][col].k = "num" /\ d.rows[i][col].n >= 0
    /\ \A col \in {"expiry_date", "manufacture_date"} :
          col \in d.columns =>
              \A i \in 1..Len(d.rows) : ~isnull(d.rows[i][col]) /\ Parseable(d.rows[i][col])
    /\ ("expiry_date" \in d.columns /\ "manufacture_date" \in d.columns)
          => \A i \in 1..Len(d.rows) : ~ExpiryNotAfter(d.rows[i])

\* C8: for any clean dataset (here: one that has rows) validate_all returns
\* status PASS and a success_rate of 100.00, whatever warnings the dataset
\* draws.
C8_CleanDataPasses ==
    (ret.kind # "none" /\ Clean(df) /\ Len(df.rows) > 0)
    => /\ ret.kind = "summary"
       /\ ret.status = "PASS"
       /\ ret.success_rate = 10000

\* The claim of C8 for the clean datasets that have a column some rule reads.
C8_CleanDataWithARulePasses ==
    (ret.kind # "none" /\ Clean(df) /\ Applicable(df) # {})
    => /\ ret.kind = "summary"
       /\ ret.status = "PASS"
       /\ ret.success_rate = 10000

\* Exactly one value of batch_number repeats an earlier one.
OneDuplicateBatch(d) ==
    "batch_number" \in d.columns /\ duplicated_sum(Col(d, "batch_number")) = 1

\* The FAIL results of the two uniqueness rules.
UniquenessFails(results) ==
    {j \in DOMAIN results : results[j].message.rule = "uniqueness" /\ results[j].status = "FAIL"}

\* C9 as stated, for batch numbers that are all present: with exactly one
\* duplicate batch_number, the uniqueness rules yield exactly one FAIL result
\* in the summary, and failed >= 1.
C9_ExactlyOneUniquenessFail ==
    (/\ ret.kind = "summary"
     /\ OneDuplicateBatch(df)
     /\ CountIf(Col(df, "batch_number"), isnull) = 0)
    => /\ Cardinality(UniquenessFails(ret.details)) = 1
       /\ ret.failed >= 1

\* C9 as amended: with exactly one duplicate batch_number, the batch_number
\* uniqueness rule yields exactly one FAIL result (reporting 1 duplicate),
\* the product_id+batch_number rule yields a second FAIL exactly when the
\* product_id column is present and the repeated batch comes with a repeated
\* product_id, and failed >= 1.
C9_BatchRuleFailsOnce ==
    (ret.kind = "summary" /\ OneDuplicateBatch(df))
    => /\ \E j \in DOMAIN ret.details :
              /\ ResultsOf(ret.details, "uniqueness", "batch_number") = {j}
              /\ ret.details[j].status = "FAIL"
              /\ ret.details[j].message.n = 1
       /\ Cardinality(UniquenessFails(ret.details)) =
              IF /\ "product_id" \in df.columns
                 /\ \E i \in 1..Len(df.rows) : \E k \in 1..(i - 1) :
                        /\ df.rows[k]["batch_number"] = df.rows[i]["batch_number"]
                        /\ df.rows[k]["product_id"] = df.rows[i]["product_id"]
              THEN 2 ELSE 1
       /\ ret.failed >= 1

\* C9 witness: a summary of a dataset with one duplicate batch_number in
\* which both uniqueness rules fail.
C9_Witness ==
    /\ ret.kind = "summary"
    /\ OneDuplicateBatch(df)
    /\ CountIf(Col(df, "batch_number"), isnull) = 0
    /\ Cardinality(UniquenessFails(ret.details)) = 2

\* C10: the expectation suite returns a report, without raising, for a
\* dataset that lacks one or more of product_id, quantity, unit_price and
\* batch_number (here: a dataset of well-typed rows for which validate_all
\* has returned a summary).
C10_SuiteToleratesMissingColumns ==
    (/\ ge_ret.kind # "none"
     /\ ret.kind = "summary"
     /\ WellTyped(df)
     /\ Len(df.rows) > 0)
    => ge_ret.kind = "report"

\* C11: in every report of create_expectation_suite, success is false if and
\* only if at least one expectation's success is false, successful +
\* unsuccessful = evaluated (the number of expectations, the successful ones
\* being those whose success is true), and success_percent is exactly
\* 100 * successful / evaluated.
C11_SuiteStatistics ==
    ge_ret.kind = "report"
    => /\ ~ge_ret.success <=> \E i \in DOMAIN ge_ret.results : ~ge_ret.results[i].success
       /\ ge_ret.evaluated_expectations = Len(ge_ret.results)
       /\ ge_ret.successful_expectations =
              Cardinality({i \in DOMAIN ge_ret.results : ge_ret.results[i].success})
       /\ ge_ret.successful_expectations + ge_ret.unsuccessful_expectations
              = ge_ret.evaluated_expectations
       /\ ge_ret.success_percent * ge_ret.evaluated_expectations
              = 10000 * ge_ret.successful_expectations

\* C11 witness: a report in which some expectations succeeded and some did
\* not.
C11_Witness ==
    /\ ge_ret.kind = "report"
    /\ ~ge_ret.success
    /\ ge_ret.successful_expectations \in 1..4
    /\ ge_ret.unsuccessful_expectations >= 2

\* C12: in every summary returned by validate_all, passed + failed equals
\* total_checks, and total_checks is the number of entries of details.
C12_CountsAddUp ==
    ret.kind = "summary"
    => /\ ret.passed + ret.failed = ret.total_checks
       /\ ret.total_checks = Len(ret.details)

\* C12 witness: a summary holding PASS, WARN and FAIL results.
C12_Witness ==
    /\ ret.kind = "summary"
    /\ CountStatus(ret.details, {"PASS"}) >= 1
    /\ CountStatus(ret.details, {"WARN"}) >= 1
    /\ CountStatus(ret.details, {"FAIL"}) >= 1

\* C13: in every summary returned by validate_all, success_rate is
\* 100 * passed / (passed + failed) rounded to two decimals (it is a whole
\* number of hundredths no further than half a hundredth from the quotient),
\* and 0 <= success_rate <= 100.
C13_RateIsRoundedQuotient ==
    ret.kind = "summary"
    => /\ ret.passed + ret.failed > 0
       /\ 2 * (ret.success_rate * (ret.passed + ret.failed) - 10000 * ret.passed)
              <= ret.passed + ret.failed
       /\ 2 * (10000 * ret.passed - ret.success_rate * (ret.passed + ret.failed))
              <= ret.passed + ret.failed
       /\ ret.success_rate >= 0
       /\ ret.success_rate <= 10000

\* C13 witness: a summary whose rate is rounded up, 12 of 13 giving 92.31.
C13_Witness ==
    /\ ret.kind = "summary"
    /\ ret.passed = 12
    /\ ret.failed = 1
    /\ ret.success_rate = 9231

\* C14: each of the 13 rules emits exactly one result when all the columns it
\* requires are present in the dataset and no result when one of them is
\* absent: after a call of validate_all the checker holds, for every rule,
\* one result or none accordingly.
C14_OneResultPerApplicableRule ==
    ret.kind # "none"
    => \A i \in DOMAIN Rules :
           Cardinality(ResultsOf(checker.results, Rules[i].rule, Rules[i].col))
               = IF i \in Applicable(df) THEN 1 ELSE 0

\* The claim of C14 for the calls that return a summary.
C14_SummaryHasOneResultPerApplicableRule ==
    ret.kind = "summary"
    => /\ \A i \in DOMAIN Rules :
              Cardinality(ResultsOf(ret.details, Rules[i].rule, Rules[i].col))
                  = IF i \in Applicable(df) THEN 1 ELSE 0
       /\ ret.total_checks = Cardinality(Applicable(df))

\* The place of a result's rule in the execution order.
RuleIndex(result) ==
    CHOOSE i \in DOMAIN Rules :
        Rules[i].rule = result.message.rule /\ Rules[i].col = result.message.col

\* C15: the details of a summary hold the results in rule execution order
\* (completeness; uniqueness; validity; consistency; accuracy, each in the
\* order of its rules): they are the results of the applicable rules, each a
\* later rule than the one before it, so a skipped rule reorders nothing.
C15_DetailsInExecutionOrder ==
    ret.kind = "summary"
    => /\ \A j \in DOMAIN ret.details :
              \E i \in DOMAIN Rules :
                  Rules[i].rule = ret.details[j].message.rule
                      /\ Rules[i].col = ret.details[j].message.col
       /\ \A j \in 1..(Len(ret.details) - 1) :
              RuleIndex(ret.details[j]) < RuleIndex(ret.details[j + 1])
       /\ {RuleIndex(ret.details[j]) : j \in DOMAIN ret.details} = Applicable(df)

\* C15 witness: a summary with results before and after rules that were
\* skipped: completeness and accuracy results, no uniqueness result.
C15_Witness ==
    /\ ret.kind = "summary"
    /\ \E j \in DOMAIN ret.details : ret.details[j].message.rule = "completeness"
    /\ \E j \in DOMAIN ret.details : ret.details[j].message.rule = "validity"
    /\ \E j \in DOMAIN ret.details : ret.details[j].message.rule = "accuracy"
    /\ \A j \in DOMAIN ret.details : ret.details[j].message.rule # "uniqueness"

\* C16: validate_all and create_expectation_suite never mutate the dataset
\* they are given: after either call, whether it returned or raised, the
\* dataset has the columns, the rows and the values it had before the call.
C16_DatasetNotMutated ==
    /\ df_after.columns = df.columns
    /\ Len(df_after.rows) = Len(df.rows)
    /\ \A i \in 1..Len(df.rows) : \A col \in df.columns :
           df_after.rows[i][col] = df.rows[i][col]

\* C16 witness: the date rule has run on date columns holding text, which it
\* converts, and the suite has run after it.
C16_Witness ==
    /\ ret.kind = "summary"
    /\ ge_ret.kind = "report"
    /\ ResultsOf(ret.details, "consistency", "expiry_date") # {}
    /\ \E i \in 1..Len(df.rows) :
           /\ df.rows[i]["expiry_date"].k = "str"
           /\ df.rows[i]["manufacture_date"].k = "str"

\* C17: a summary returned by validate_all, its details list included, is
\* never changed by a later validate_all call on the same checker.
C17_SummaryNeverChanged ==
    held.kind = "summary" => held.intact

\* C17 witness: a summary is held from the call before the last, and the
\* last call, on the same checker, has returned a summary with another
\* number of results.
C17_Witness ==
    /\ held.kind = "summary"
    /\ held.intact
    /\ entry.kind = "summary"
    /\ ret.kind = "summary"
    /\ Len(ret.details) # entry.n

\* The number of nulls of a column.
NullCount(d, col) == Cardinality({i \in 1..Len(d.rows) : d.rows[i][col].k = "null"})

\* C18: completeness: after a call of validate_all, each critical column
\* present in the dataset has one completeness result, FAIL if the column
\* holds a null and PASS otherwise; with N nulls in M rows the FAIL message
\* reports the count N and the percentage N/M*100 (to two decimals).
C18_CompletenessVerdicts ==
    ret.kind # "none"
    => \A col \in {"product_id", "product_name", "quantity", "batch_number"} \cap df.columns :
           \E j \in DOMAIN checker.results :
               /\ ResultsOf(checker.results, "completeness", col) = {j}
               /\ checker.results[j].status = IF NullCount(df, col) > 0 THEN "FAIL" ELSE "PASS"
               /\ NullCount(df, col) > 0 =>
                      /\ checker.results[j].message.n = NullCount(df, col)
                      /\ 2 * (checker.results[j].message.pct * Len(df.rows)
                                  - 10000 * NullCount(df, col)) <= Len(df.rows)
                      /\ 2 * (10000 * NullCount(df, col)
                                  - checker.results[j].message.pct * Len(df.rows)) <= Len(df.rows)

\* C18 witness: a column with one null in two rows, reported as 1 null and
\* 50.00%, beside a critical column without nulls.
C18_Witness ==
    /\ ret.kind = "summary"
    /\ Len(df.rows) = 2
    /\ \E j \in DOMAIN ret.details :
           /\ ret.details[j].message.rule = "completeness"
           /\ ret.details[j].status = "FAIL"
           /\ ret.details[j].message.n = 1
           /\ ret.details[j].message.pct = 5000
    /\ \E j \in DOMAIN ret.details :
           ret.details[j].message.rule = "completeness" /\ ret.details[j].status = "PASS"

\* Some value of the column is a negative number.
HasNegative(d, col) == \E i \in 1..Len(d.rows) : d.rows[i][col].k = "num" /\ d.rows[i][col].n < 0

\* The verdict the validity rule of a column is to give.
ValidityVerdict(d, col) ==
    IF col = "expiry_date"
    THEN IF \E i \in 1..Len(d.rows) : ~Parseable(d.rows[i][col]) THEN "FAIL" ELSE "PASS"
    ELSE IF HasNegative(d, col) THEN "FAIL" ELSE "PASS"

\* C19: validity: after a call of validate_all on a dataset holding the
\* column, the quantity rule has yielded FAIL if some quantity is negative
\* and PASS otherwise, the unit_price rule likewise, and the expiry_date rule
\* FAIL if some value cannot be parsed as a date and PASS otherwise; none
\* yields WARN.
C19_ValidityVerdicts ==
    ret.kind # "none"
    => \A col \in {"quantity", "unit_price", "expiry_date"} \cap df.columns :
           \E j \in DOMAIN checker.results :
               /\ ResultsOf(checker.results, "validity", col) = {j}
               /\ checker.results[j].status = ValidityVerdict(df, col)

\* The claim of C19 for the validity results that are emitted.
C19_EmittedValidityVerdicts ==
    \A col \in {"quantity", "unit_price", "expiry_date"} :
        \A j \in ResultsOf(checker.results, "validity", col) :
            col \in df.columns /\ checker.results[j].status = ValidityVerdict(df, col)

\* Some row has dates that parse, the expiry not after the manufacture.
HasExpiryNotAfter(d) ==
    \E i \in 1..Len(d.rows) :
        /\ Parseable(d.rows[i]["expiry_date"])
        /\ Parseable(d.rows[i]["manufacture_date"])
        /\ ExpiryNotAfter(d.rows[i])

\* Some warehouse_location is outside the allowed set.
HasUnknownWarehouse(d) ==
    \E i \in 1..Len(d.rows) :
        ~(/\ d.rows[i]["warehouse_location"].k = "str"
          /\ d.rows[i]["warehouse_location"].s
                 \in {"Warehouse A", "Warehouse B", "Warehouse C", "Unknown"})

\* C20: consistency: after a call of validate_all on a dataset holding both
\* date columns, the date-ordering rule has yielded FAIL if some row has
\* expiry <= manufacture and PASS otherwise; on a dataset holding
\* warehouse_location the membership rule has yielded WARN, never FAIL, if
\* some value is outside the allowed set and PASS otherwise.
C20_ConsistencyVerdicts ==
    ret.kind # "none"
    => /\ ("expiry_date" \in df.columns /\ "manufacture_date" \in df.columns)
              => \E j \in DOMAIN checker.results :
                     /\ ResultsOf(checker.results, "consistency", "expiry_date") = {j}
                     /\ checker.results[j].status =
                            IF HasExpiryNotAfter(df) THEN "FAIL" ELSE "PASS"
       /\ "warehouse_location" \in df.columns
              => \E j \in DOMAIN checker.results :
                     /\ ResultsOf(checker.results, "consistency", "warehouse_location") = {j}
                     /\ checker.results[j].status =
                            IF HasUnknownWarehouse(df) THEN "WARN" ELSE "PASS"

\* The claim of C20 for the consistency results that are emitted.
C20_EmittedConsistencyVerdicts ==
    /\ \A j \in ResultsOf(checker.results, "consistency", "expiry_date") :
           checker.results[j].status = IF HasExpiryNotAfter(df) THEN "FAIL" ELSE "PASS"
    /\ \A j \in ResultsOf(checker.results, "consistency", "warehouse_location") :
           checker.results[j].status = IF HasUnknownWarehouse(df) THEN "WARN" ELSE "PASS"

\* Every value of the column is a number.
AllNumbers(d, col) == \A i \in 1..Len(d.rows) : d.rows[i][col].k = "num"

\* Some value of the column is 0 or above the bound.
HasSuspicious(d, col, bound) ==
    \E i \in 1..Len(d.rows) :
        d.rows[i][col].k = "num" /\ (d.rows[i][col].n = 0 \/ d.rows[i][col].n > bound)

\* The accuracy rule of a numeric column yields PASS only when every value
\* is > 0 and <= bound, WARN when a value is 0 or above the bound, never FAIL.
AccuracyAsClaimed(results, d, col, bound) ==
    (col \in d.columns /\ AllNumbers(d, col))
    => \A j \in ResultsOf(results, "accuracy", col) :
           /\ results[j].status # "FAIL"
           /\ HasSuspicious(d, col, bound) => results[j].status = "WARN"
           /\ results[j].status = "PASS"
                  => \A i \in 1..Len(d.rows) :
                         d.rows[i][col].n > 0 /\ d.rows[i][col].n <= bound

\* C21: accuracy, on columns that hold numbers only: in every summary the
\* quantity rule (bound 1,000,000) and the unit_price rule (bound 100,000)
\* yield PASS only when every value is > 0 and <= the bound, WARN when any
\* value is 0 or exceeds the bound, and never FAIL.
C21_AccuracyVerdicts ==
    ret.kind = "summary"
    => /\ AccuracyAsClaimed(ret.details, df, "quantity", 1000000)
       /\ AccuracyAsClaimed(ret.details, df, "unit_price", 100000)

\* What holds of C21: each accuracy result is WARN exactly when a value is 0
\* or exceeds the bound and PASS otherwise, never FAIL.
C21_WarnIffZeroOrAboveBound ==
    ret.kind = "summary"
    => /\ \A j \in ResultsOf(ret.details, "accuracy", "quantity") :
              ret.details[j].status =
                  IF HasSuspicious(df, "quantity", 1000000) THEN "WARN" ELSE "PASS"
       /\ \A j \in ResultsOf(ret.details, "accuracy", "unit_price") :
              ret.details[j].status =
                  IF HasSuspicious(df, "unit_price", 100000) THEN "WARN" ELSE "PASS"

\* The dataset of the end-to-end scenario: three complete, well-typed rows
\* with every column, one negative quantity, one repeated batch_number.
IsScenario(d) ==
    /\ d.columns = Columns
    /\ Len(d.rows) = 3
    /\ WellTyped(d)
    /\ \A i \in 1..3 : \A col \in {"product_id", "product_name", "quantity", "batch_number"} :
           d.rows[i][col].k # "null"
    /\ Cardinality({i \in 1..3 : d.rows[i]["quantity"].n < 0}) = 1
    /\ Cardinality({i \in 1..3 : \E k \in 1..(i - 1) :
                        d.rows[k]["batch_number"] = d.rows[i]["batch_number"]}) = 1
    /\ \E i \in 1..3 : Clean(Project(Columns, <<d.rows[i]>>))

\* C22: end-to-end scenario: on three rows with every column, one fully
\* valid, one with a negative quantity, one repeating the batch_number of
\* the valid row, validate_all reports the quantity validity rule FAIL with 1
\* negative quantity, the batch_number uniqueness rule FAIL with 1 duplicate,
\* the four completeness rules PASS, success_rate < 100 and status FAIL.
C22_EndToEndScenario ==
    (ret.kind # "none" /\ IsScenario(df))
    => /\ ret.kind = "summary"
       /\ \E j \in ResultsOf(ret.details, "validity", "quantity") :
              ret.details[j].status = "FAIL" /\ ret.details[j].message.n = 1
       /\ \E j \in ResultsOf(ret.details, "uniqueness", "batch_number") :
              ret.details[j].status = "FAIL" /\ ret.details[j].message.n = 1
       /\ \A col \in {"product_id", "product_name", "quantity", "batch_number"} :
              \E j \in ResultsOf(ret.details, "completeness", col) :
                  ret.details[j].status = "PASS"
       /\ ret.success_rate < 10000
       /\ ret.status = "FAIL"

\* C22 witness: validate_all has returned on a dataset of the scenario.
C22_Witness ==
    /\ ret.kind = "summary"
    /\ IsScenario(df)
    /\ ret.failed >= 2

\* C28: with at most 13 checks the 95% threshold tolerates no failure: in
\* every summary, status is PASS if and only if failed = 0.
C28_PassIffNoFailure ==
    ret.kind = "summary"
    => /\ ret.total_checks <= 13
       /\ ret.status = "PASS" <=> ret.failed = 0

\* C28 witness: a single FAIL among 13 results, warnings among the others,
\* and the status is FAIL.
C28_Witness ==
    /\ ret.kind = "summary"
    /\ ret.total_checks = 13
    /\ ret.failed = 1
    /\ CountStatus(ret.details, {"WARN"}) >= 1
    /\ ret.status = "FAIL"

----------------------------------------------------------------------------
(* Properties of the DAGs *)

\* C5: the combined gate: whenever run_quality_checks_task has pushed its
\* results, overall_status is PASS if and only if the check evaluator's
\* status is PASS and the expectation suite's success is true; otherwise it
\* is FAIL and the task has raised.
C5_CombinedGate ==
    outcome["run_quality_checks"] # "none" /\ ret.kind = "summary" /\ ge_ret.kind = "report"
    => /\ xcom.quality_results.kind = "pushed"
       /\ xcom.quality_results.basic_checks = ret
       /\ xcom.quality_results.great_expectations = ge_ret
       /\ xcom.quality_results.overall_status \in {"PASS", "FAIL"}
       /\ xcom.quality_results.overall_status = "PASS"
              <=> (ret.status = "PASS" /\ ge_ret.success)
       /\ xcom.quality_results.overall_status = "FAIL"
              <=> outcome["run_quality_checks"] = "raise"

\* C5 witness: the evaluator said PASS, the suite did not succeed, and the
\* task raised.
C5_Witness ==
    /\ outcome["run_quality_checks"] = "raise"
    /\ ret.kind = "summary"
    /\ ret.status = "PASS"
    /\ ge_ret.kind = "report"
    /\ ~ge_ret.success
    /\ xcom.quality_results.overall_status = "FAIL"

\* The tasks downstream of validate_raw_data.
AfterRawValidation ==
    {"transform_data", "validate_transformed_data", "load_data", "verify_load",
     "log_pipeline_execution", "send_success_notification"}

\* C6: a FAIL verdict stops the pipeline: a task downstream of
\* validate_raw_data has run only if validate_raw_data returned with status
\* PASS, and generate_quality_report has run only if run_quality_checks
\* returned with overall_status PASS; after a FAIL verdict no downstream task
\* has run.
C6_FailStopsPipeline ==
    /\ \A t \in AfterRawValidation :
          t \in executed =>
              /\ outcome["validate_raw_data"] = "return"
              /\ xcom.validation_result.kind = "summary"
              /\ xcom.validation_result.status = "PASS"
    /\ "generate_quality_report" \in executed =>
          /\ outcome["run_quality_checks"] = "return"
          /\ xcom.quality_results.overall_status = "PASS"
    /\ (xcom.validation_result.kind = "summary" /\ xcom.validation_result.status = "FAIL")
          => executed \cap AfterRawValidation = {}
    /\ xcom.quality_results.overall_status = "FAIL"
          => "generate_quality_report" \notin executed

\* C6 witness: validate_raw_data has used up its retries on a FAIL verdict
\* and the task after it has been marked upstream_failed without running.
C6_Witness ==
    /\ xcom.validation_result.kind = "summary"
    /\ xcom.validation_result.status = "FAIL"
    /\ ti["validate_raw_data"] = "failed"
    /\ ti["transform_data"] = "upstream_failed"
    /\ "transform_data" \notin executed

----------------------------------------------------------------------------
(* Properties of the transformer *)

\* clean_data has just returned df_clean for df_raw.
Cleaned == step = "cleaned"

\* The rows of a frame that hold a value in column col satisfying P.
RowsWith(d, col, P(_)) == {i \in 1..Len(d.rows) : P(d.rows[i][col])}

Negative(c) == c.k = "num" /\ c.n < 0

Positive(c) == c.k = "num" /\ c.n > 0

\* C23: clean_data removes duplicate records: for every input dataset, the
\* dataset it returns contains no two rows that are equal in every column.
C23_NoDuplicateRows ==
    Cleaned =>
        \A i, j \in 1..Len(df_clean.rows) : i # j => df_clean.rows[i] # df_clean.rows[j]

\* What holds of duplicates: no two rows that were equal in every column of
\* the input are both represented in the result, which has no more rows than
\* the input has distinct rows.
C23_InputDuplicatesDropped ==
    Cleaned => Len(df_clean.rows) <= Cardinality({df_raw.rows[i] : i \in 1..Len(df_raw.rows)})

\* C24: clean_data handles missing values: for every input dataset that has
\* quantity and unit_price columns, whatever mix of numbers, nulls and
\* non-numeric values they hold, the dataset it returns has no null in
\* quantity and no null in unit_price.
C24_NoNullQuantityOrPrice ==
    (Cleaned /\ {"quantity", "unit_price"} \subseteq df_raw.columns)
    => /\ RowsWith(df_clean, "quantity", isnull) = {}
       /\ RowsWith(df_clean, "unit_price", isnull) = {}

\* What holds of missing values: the result has no null in quantity, and a
\* null in unit_price only in a row whose unit_price was text that is no
\* number, or was null in a column holding such text or nothing but None or
\* NaT.
C24_QuantityNeverNull ==
    (Cleaned /\ {"quantity", "unit_price"} \subseteq df_raw.columns)
    => /\ RowsWith(df_clean, "quantity", isnull) = {}
       /\ RowsWith(df_clean, "unit_price", isnull) # {}
            => \/ \E i \in 1..Len(df_raw.rows) : df_raw.rows[i]["unit_price"].k = "str"
               \/ /\ nulls # "number"
                  /\ \A i \in 1..Len(df_raw.rows) : isnull(df_raw.rows[i]["unit_price"])

\* C25: clean_data removes negative quantities: every row of the dataset it
\* returns has a quantity that is not negative, and a row whose quantity is
\* positive is never removed because of its quantity: a row that is in the
\* converted frame with a positive quantity, and with its expiry date after
\* its manufacture date when the frame has both, is in the result.
C25_NegativeQuantitiesRemoved ==
    (Cleaned /\ "quantity" \in df_raw.columns)
    => /\ \A i \in 1..Len(df_clean.rows) : NotNegative(df_clean.rows[i]["quantity"])
       /\ \A i \in RowsWith(converted(df_raw, nulls), "quantity", Positive) :
             ({"expiry_date", "manufacture_date"} \subseteq df_raw.columns
                 => ExpiryAfter(converted(df_raw, nulls).rows[i]))
             => \E j \in 1..Len(df_clean.rows) :
                    df_clean.rows[j] = converted(df_raw, nulls).rows[i]

\* C25 witness: of a row with a positive and a row with a negative quantity
\* the result holds the first and nothing else.
C25_Witness ==
    /\ Cleaned
    /\ Len(df_raw.rows) = 2
    /\ RowsWith(df_raw, "quantity", Positive) # {}
    /\ RowsWith(df_raw, "quantity", Negative) # {}
    /\ Len(df_clean.rows) = 1
    /\ RowsWith(df_clean, "quantity", Positive) = {1}

\* C26: clean_data removes records whose expiry date does not exceed the
\* manufacture date: in the dataset it returns, every row in which both
\* expiry_date and manufacture_date are present has expiry_date >
\* manufacture_date.
C26_ExpiryAfterManufacture ==
    (Cleaned /\ {"expiry_date", "manufacture_date"} \subseteq df_clean.columns)
    => \A i \in 1..Len(df_clean.rows) :
          (~isnull(df_clean.rows[i]["expiry_date"])
              /\ ~isnull(df_clean.rows[i]["manufacture_date"]))
          => ExpiryAfter(df_clean.rows[i])

\* C26 witness: of a row whose dates are equal and a row whose expiry date
\* is the later one the result holds the second and nothing else.
C26_Witness ==
    /\ Cleaned
    /\ {"expiry_date", "manufacture_date"} \subseteq df_raw.columns
    /\ Len(df_raw.rows) = 2
    /\ \E i \in 1..2 :
          /\ df_raw.rows[i]["expiry_date"].k = "date"
          /\ df_raw.rows[i]["expiry_date"] = df_raw.rows[i]["manufacture_date"]
          /\ NotNegative(df_raw.rows[i]["quantity"])
    /\ Len(df_clean.rows) = 1
    /\ ExpiryAfter(df_clean.rows[1])

\* The input of the transformation has the columns enrich_data computes
\* from.
Enrichable == {"quantity", "unit_price", "expiry_date"} \subseteq df_raw.columns

\* C27: enrich_data applied to the output of clean_data on a dataset that
\* has quantity, unit_price and expiry_date columns returns a dataset that
\* has the columns days_until_expiry, total_value and stock_level, so that
\* validate_transformed_data_task does not raise, and in every row
\* total_value equals quantity * unit_price.
C27_EnrichedColumnsAndTaskPasses ==
    (step = "checked" /\ Enrichable)
    => /\ required_columns \subseteq df_enriched.columns
       /\ transformed = "return"
       /\ \A i \in 1..Len(df_enriched.rows) :
             \/ /\ isnull(df_enriched.rows[i]["unit_price"])
                /\ isnull(df_enriched.rows[i]["total_value"])
             \/ /\ df_enriched.rows[i]["total_value"].k = "num"
                /\ df_enriched.rows[i]["total_value"].n =
                      df_enriched.rows[i]["quantity"].n * df_enriched.rows[i]["unit_price"].n

\* The claim of C27 for enrich_data alone, and for the task when the
\* transformed data has a row.
C27_EnrichedColumnsAndTotal ==
    (step \in {"enriched", "checked"} /\ Enrichable)
    => /\ required_columns \subseteq df_enriched.columns
       /\ (step = "checked" /\ Len(df_enriched.rows) > 0) => transformed = "return"
       /\ (step = "checked" /\ Len(df_enriched.rows) = 0) => transformed = "raise"
       /\ \A i \in 1..Len(df_enriched.rows) :
             \/ /\ isnull(df_enriched.rows[i]["unit_price"])
                /\ isnull(df_enriched.rows[i]["total_value"])
             \/ /\ df_enriched.rows[i]["total_value"].k = "num"
                /\ df_enriched.rows[i]["total_value"].n =
                      df_enriched.rows[i]["quantity"].n * df_enriched.rows[i]["unit_price"].n

\* C29: cleaning establishes what the validator checks for quantity and
\* dates: for every input dataset d, validate_all applied to clean_data(d)
\* reports no FAIL from the quantity validity rule and no FAIL from the
\* expiry-after-manufacture consistency rule; each of the two rules that
\* applies to the cleaned dataset reports PASS.
C29_CleanDataPassesItsRules ==
    (Cleaned /\ ret.kind # "none")
    => /\ df = df_clean
       /\ \A j \in ResultsOf(checker.results, "validity", "quantity")
                     \cup ResultsOf(checker.results, "consistency", "expiry_date") :
             checker.results[j].status = "PASS"
       /\ "quantity" \in df_clean.columns
            => ResultsOf(checker.results, "validity", "quantity") # {}
       /\ {"expiry_date", "manufacture_date"} \subseteq df_clean.columns
            => ResultsOf(checker.results, "consistency", "expiry_date") # {}

\* C29 witness: the input has every column, a row with a negative quantity
\* and a row whose expiry date is not after its manufacture date, and
\* validate_all has returned a summary for what is left of it.
C29_Witness ==
    /\ Cleaned
    /\ ret.kind = "summary"
    /\ df_raw.columns = Columns
    /\ RowsWith(df_raw, "quantity", Negative) # {}
    /\ \E i \in 1..Len(df_raw.rows) :
          /\ df_raw.rows[i]["expiry_date"].k = "date"
          /\ df_raw.rows[i]["expiry_date"] = df_raw.rows[i]["manufacture_date"]
    /\ \E j \in ResultsOf(checker.results, "validity", "quantity") :
          checker.results[j].status = "PASS"
    /\ \E j \in ResultsOf(checker.results, "consistency", "expiry_date") :
          checker.results[j].status = "PASS"

----------------------------------------------------------------------------
(* Properties of the loader *)

\* The records of a sequence of batches, in the order they were inserted.
RECURSIVE Flatten(_)
Flatten(batches) ==
    IF batches = <<>> THEN <<>>
    ELSE Flatten(SubSeq(batches, 1, Len(batches) - 1)) \o batches[Len(batches)]

\* C30: load_to_database inserts the prepared records in consecutive batches
\* of at most 100, in order, each record in exactly one batch, and on
\* success returns the total number of records; when the insert of a batch
\* fails the error is re-raised to the caller and the batches inserted
\* before it stay inserted, the failed batch and the batches after it do
\* not.
C30_BatchedLoad ==
    /\ \A k \in DOMAIN inserted : Len(inserted[k]) \in 1..batch_size
    /\ Flatten(inserted) = SubSeq(records, 1, Len(Flatten(inserted)))
    /\ load_pc = "loop" => Len(Flatten(inserted)) = Min(load_i, Len(records))
    /\ load_ret.kind = "return"
         => /\ Flatten(inserted) = records
            /\ load_ret.value = Len(records)
    /\ load_ret.kind = "raise"
         => /\ load_pc = "done"
            /\ Len(Flatten(inserted)) = load_i
            /\ records # <<>> => load_i < Len(records)

\* C30 witness: the third insert of a load of more than two batches has
\* failed, and the table holds the first two batches.
C30_Witness ==
    /\ load_ret.kind = "raise"
    /\ Len(records) > 2 * batch_size
    /\ Len(inserted) = 2
    /\ Len(inserted[1]) = batch_size
    /\ Len(inserted[2]) = batch_size

====
